---- MODULE Spec2Model ----
(***************************************************************************)
(* Matchmaking pipeline of the Cursed Faction backend.                     *)
(*                                                                         *)
(*   api-gateway  POST /v1/matchmaking/enqueue  publishes an enqueue       *)
(*                message on "matchmaking.enqueue"                         *)
(*   matchmaking  one `for await` loop per worker process; every message   *)
(*                is LPUSHed to the Redis list mm_queue:<bucket>, and a    *)
(*                list of 8 or more is read (LRANGE), trimmed (LTRIM) and  *)
(*                published as a 4v4 match on "matchmaking.match_found"    *)
(*   session      one `for await` loop per process; every match_found      *)
(*                event that validates gets a fresh id, is stored under    *)
(*                session:<id> with a time to live of 24 hours and is      *)
(*                announced on "session.created"; GET /v1/sessions/:id     *)
(*                reads it back                                            *)
(*                                                                         *)
(* Every Redis or NATS call of the worker is awaited, so each one is one   *)
(* atomic step of the worker, and the steps of different workers           *)
(* interleave.  A Redis list is a sequence whose first element is the head *)
(* (the LPUSH end); its last element is the oldest.                        *)
(***************************************************************************)
EXTENDS Bags, FiniteSets, Integers, Sequences, TLC

VARIABLES
    clock,          \* the value the next Date.now() returns
    sent,           \* enqueue messages published by the gateway so far
    repeats,        \* how many of them repeated the previous playerId
    inbox,          \* inbox[w]: messages delivered to worker w's subscription
    store,          \* store[b]: the Redis list mm_queue:<b>
    appended,       \* LPUSHes executed so far (gives each list node its seq)
    accepted,       \* accepted[b]: bag of payloads LPUSHed for an enqueue message
    pc,             \* pc[w]: the await worker w is suspended at
    payload,        \* payload[w]: the message being processed
    len,            \* len[w]: the LLEN response
    players,        \* players[w]: the LRANGE response
    parsedPlayers,  \* parsedPlayers[w]
    match,          \* match[w]: the match object built at lines 120-126
    idx,            \* idx[w]: position of the re-add loop in parsedPlayers
    published,      \* events published on matchmaking.match_found, in order
    faults,         \* failed publishes so far
    outcome,        \* outcome[w]: how w's last finished message ended
    removed,        \* removed[w]: the list nodes w's last LTRIM deleted
    returned,       \* returned[b]: what the last claim on bucket b put back, if it aborted
    mmrIn,          \* a rating handed to the bucket computation
    bucketOut,      \* <<its bucket>> once computed
    foreign,        \* messages on matchmaking.enqueue that no gateway wrote
    cursor,         \* cursor[s]: match_found events session service s has taken
    spc,            \* spc[s]: the await session service s is suspended at
    smatch,         \* smatch[s]: the match being handled
    sid,            \* sid[s]: the sessionId generated for it
    uuids,          \* randomUUID() calls so far
    sessions,       \* the Redis keys session:<id>, with value and expiry
    made,           \* every SETEX executed so far, in order
    created,        \* events published on session.created, in order
    soutcome,       \* soutcome[s]: how s's last finished event ended
    sfaults,        \* failed SETEX or publish calls of the session service
    response,          \* the last response of GET /v1/sessions/:id
    ticks,          \* passages of time so far
    request,        \* the body of the last POST /v1/matchmaking/enqueue
    answer,         \* the response to it
    before,         \* before[w]: the list and the events when w took its message
    storeFaults,    \* failed Redis calls of the worker so far
    down            \* down[w]: how far gracefulShutdown has run in worker w

vars == <<clock, sent, repeats, inbox, store, appended, accepted, pc, payload,
          len, players, parsedPlayers, match, idx, published, faults, outcome,
          removed, returned, mmrIn, bucketOut, foreign, cursor, spc, smatch,
          sid, uuids, sessions, made, created, soutcome, sfaults, response,
          ticks, request, answer, before, storeFaults, down>>

\* the variables of the session service
session == <<cursor, spc, smatch, sid, uuids, sessions, made, created,
             soutcome, sfaults, response, ticks>>

\* the variables outside the bucket lists, the bus and the worker's registers
aside == <<mmrIn, bucketOut, foreign, session, request, answer, before,
           storeFaults, down>>

\* the variables the session service never touches
worker == <<sent, repeats, inbox, store, appended, accepted, pc, payload, len,
            players, parsedPlayers, match, idx, faults, outcome, removed,
            returned, mmrIn, bucketOut, foreign, request, answer, before,
            storeFaults, down>>

(***************************************************************************)
(* Program constants                                                       *)
(***************************************************************************)
BUCKET == 100
GroupSize == 8
TeamSize == 4
MinMmr == 0
MaxMmr == 10000
DefaultMmr == 1000

(***************************************************************************)
(* Bounds of the model                                                     *)
(***************************************************************************)
MaxMsgs == 5            \* enqueue messages, concurrent workers
MaxMsgsSingle == 17     \* enqueue messages, one worker
MaxRepeats == 1         \* enqueue messages repeating the previous playerId
MaxPublishFaults == 2   \* failed publishes
MaxMsgsDrop == 8        \* gateway messages next to foreign ones
MaxForeign == 1         \* messages on the subject that no gateway wrote
MaxEvents == 2          \* events on matchmaking.match_found
MaxTicks == 2           \* passages of time
MaxSessionFaults == 1   \* failed calls of the session service
MaxRequests == 2        \* accepted requests of the enqueue endpoint
MaxMsgsStore == 9       \* enqueue messages, store with faults
MaxStoreFaults == 1     \* failed Redis calls of the worker
MaxMsgsPipeline == 16   \* enqueue messages, one worker and the session service
MaxMsgsRace == 8        \* enqueue messages, two workers and the session service
MaxMsgsShutdown == 9    \* enqueue messages, worker that is told to stop
MaxMsgsBuckets == 9     \* enqueue messages, ratings of several buckets

Workers == {1, 2}
OneWorker == {1}
Services == {1, 2}
OneService == {1}

\* setex(sessionKey, 24 * 60 * 60, ...), in seconds
SessionTtl == 24 * 60 * 60

\* Ratings the modelled callers send: the four of the bucket test
Ratings == {1000, 1050, 1150, 999}
PlayerId(n) == "p" \o ToString(n)

\* Ratings at the border of two buckets: two of bucket 1000, one of 1100
BorderRatings == {1000, 1099, 1100}

\* What `typeof` answers for a parsed message and its three fields.  A
\* message is the value its JSON text denotes together with these answers;
\* self is "unparseable" for a text JSON.parse throws on, "null" for null.
WellTyped == [self |-> "object", playerId |-> "string", mmr |-> "number",
              ts |-> "number"]

NoPayload == [playerId |-> "", mmr |-> 0, ts |-> 0, js |-> WellTyped]
NoRequest == [playerId |-> "", chars |-> <<>>, mmr |-> 0,
              js |-> [playerId |-> "undefined", mmr |-> "undefined"],
              whole |-> TRUE]
Reply(status, text) == [status |-> status, text |-> text]
NoAnswer == Reply(0, "")
NoBefore == [list |-> <<>>, events |-> 0]
NoReturn == [group |-> <<>>, waiting |-> 0, n |-> 0]
\* What `typeof` and Array.isArray answer for a parsed match and its fields
MatchTyped == [self |-> "object", mode |-> "string", region |-> "string",
               teamA |-> "array", teamB |-> "array", createdAt |-> "number"]

NoMatch == [mode |-> "", region |-> "", teamA |-> <<>>, teamB |-> <<>>,
            createdAt |-> 0, js |-> MatchTyped]

(***************************************************************************)
(* Pure helpers                                                            *)
(***************************************************************************)
Min(a, b) == IF a < b THEN a ELSE b
Max(a, b) == IF a > b THEN a ELSE b

RECURSIVE SeqToBag(_)
SeqToBag(s) == IF s = <<>> THEN EmptyBag
               ELSE SetToBag({Head(s)}) (+) SeqToBag(Tail(s))

Range(s) == {s[i] : i \in DOMAIN s}
Map(s, Op(_)) == [i \in DOMAIN s |-> Op(s[i])]

\* Math.round in place of Math.floor
BucketOfRounded(mmr) == ((2 * mmr + BUCKET) \div (2 * BUCKET)) * BUCKET

\* Math.floor(payload.mmr / BUCKET) * BUCKET
BucketOf(mmr) == (mmr \div BUCKET) * BUCKET

BucketKeys == {BucketOf(r) : r \in Ratings}

\* JSON.parse(sc.decode(msg.data)) returns
JsonParses(m) == m.js.self # "unparseable"

\* the timestamp test left out
validateEnqueuePayloadNoTs(p) ==
    /\ p.js.self = "object"
    /\ p.js.playerId = "string"
    /\ p.playerId # ""
    /\ p.js.mmr = "number"
    /\ p.mmr >= MinMmr
    /\ p.mmr <= MaxMmr

\* validateEnqueuePayload, lines 26-37
validateEnqueuePayload(p) ==
    /\ p.js.self = "object"
    /\ p.js.playerId = "string"
    /\ p.playerId # ""
    /\ p.js.mmr = "number"
    /\ p.mmr >= MinMmr
    /\ p.mmr <= MaxMmr
    /\ p.js.ts = "number"
    /\ p.ts > 0

\* JSON.stringify of a payload and JSON.parse of a list node.  A list node is
\* the JSON text plus seq, the order number of the LPUSH that created it.
Stringify(p, n) == [json |-> p, seq |-> n]
Parse(node) == node.json

(***************************************************************************)
(* Redis list commands                                                     *)
(***************************************************************************)
LPush(list, node) == <<node>> \o list

LLen(list) == Len(list)

\* LRANGE list start stop, zero-based, negative indexes count from the tail
LRange(list, start, stop) ==
    LET n == Len(list)
        s0 == IF start < 0 THEN Max(n + start, 0) ELSE start
        e0 == IF stop < 0 THEN n + stop ELSE stop
        e1 == Min(e0, n - 1)
    IN  IF s0 > e1 \/ s0 >= n THEN <<>> ELSE SubSeq(list, s0 + 1, e1 + 1)

\* LTRIM list start stop: keep only the elements start..stop
LTrim(list, start, stop) ==
    LET n == Len(list)
        s0 == IF start < 0 THEN Max(n + start, 0) ELSE start
        e0 == IF stop < 0 THEN n + stop ELSE stop
        e1 == Min(e0, n - 1)
    IN  IF s0 > e1 \/ s0 >= n THEN <<>> ELSE SubSeq(list, s0 + 1, e1 + 1)

(***************************************************************************)
(* Session ids.  An id is the sequence of the groups its text has between   *)
(* hyphens; a character is its value as a hex digit, or 16 if it is none.   *)
(***************************************************************************)
Zeros(n) == [i \in 1..n |-> 0]
IsHex(g, n) == Len(g) = n /\ \A i \in DOMAIN g : g[i] < 16

\* randomUUID(): the n-th call returns a version 4 UUID no earlier call returned
RandomUuid(n) ==
    << Zeros(7) \o <<n>>, Zeros(4), <<4>> \o Zeros(3), <<8>> \o Zeros(3),
       Zeros(12) >>

\* the pattern of GET /v1/sessions/:id, line 116
UuidRoute(id) ==
    /\ Len(id) = 5
    /\ IsHex(id[1], 8)
    /\ IsHex(id[2], 4)
    /\ IsHex(id[3], 4)
    /\ id[3][1] \in 1..5
    /\ IsHex(id[4], 4)
    /\ id[4][1] \in {8, 9, 10, 11}
    /\ IsHex(id[5], 12)

\* the pattern of the UUID format test, part_005 line 218
UuidShaped(id) ==
    /\ Len(id) = 5
    /\ IsHex(id[1], 8)
    /\ IsHex(id[2], 4)
    /\ IsHex(id[3], 4)
    /\ IsHex(id[4], 4)
    /\ IsHex(id[5], 12)

NoId == <<>>
NoSession == [id |-> NoId, region |-> "", mode |-> "", teamA |-> <<>>,
              teamB |-> <<>>, createdAt |-> 0]
NoReply == [id |-> NoId, status |-> 0, error |-> "", body |-> NoSession,
            consulted |-> FALSE, at |-> 0]

(***************************************************************************)
(* Redis string keys with a time to live.  clock is in milliseconds.       *)
(***************************************************************************)
SessionKey(id) == <<"session:", id>>

\* SETEX key seconds value at time now
SetEx(db, key, seconds, value, now) ==
    {e \in db : e.key # key}
        \cup {[key |-> key, value |-> value, expires |-> now + seconds * 1000]}

\* GET key at time now: the values found, none for a missing or expired key
Get(db, key, now) == {e.value : e \in {x \in db : x.key = key /\ now < x.expires}}

(***************************************************************************)
(* Initial state: connected, subscribed, nothing queued                    *)
(***************************************************************************)
InitSession ==
    /\ cursor = [s \in Services |-> 0]
    /\ spc = [s \in Services |-> "idle"]
    /\ smatch = [s \in Services |-> NoMatch]
    /\ sid = [s \in Services |-> NoId]
    /\ uuids = 0
    /\ sessions = {}
    /\ made = <<>>
    /\ created = <<>>
    /\ soutcome = [s \in Services |-> "none"]
    /\ sfaults = 0
    /\ response = NoReply
    /\ ticks = 0

InitPipeline ==
    /\ clock = 1
    /\ sent = 0
    /\ repeats = 0
    /\ inbox = [w \in Workers |-> <<>>]
    /\ store = [b \in BucketKeys |-> <<>>]
    /\ appended = 0
    /\ accepted = [b \in BucketKeys |-> EmptyBag]
    /\ pc = [w \in Workers |-> "idle"]
    /\ payload = [w \in Workers |-> NoPayload]
    /\ len = [w \in Workers |-> 0]
    /\ players = [w \in Workers |-> <<>>]
    /\ parsedPlayers = [w \in Workers |-> <<>>]
    /\ match = [w \in Workers |-> NoMatch]
    /\ idx = [w \in Workers |-> 0]
    /\ published = <<>>
    /\ faults = 0
    /\ outcome = [w \in Workers |-> "none"]
    /\ removed = [w \in Workers |-> <<>>]
    /\ returned = [b \in BucketKeys |-> NoReturn]
    /\ foreign = 0
    /\ InitSession
    /\ request = NoRequest
    /\ answer = NoAnswer
    /\ before = [w \in Workers |-> NoBefore]
    /\ storeFaults = 0
    /\ down = [w \in Workers |-> "up"]

Init ==
    /\ InitPipeline
    /\ mmrIn = DefaultMmr
    /\ bucketOut = <<>>

(***************************************************************************)
(* api-gateway: POST /v1/matchmaking/enqueue with a body the schema        *)
(* accepts.  The message goes to every subscription of the subject: the    *)
(* workers subscribe without a queue group.                                *)
(***************************************************************************)
\* the timestamp left out of the message
GatewayEnqueueNoTs(subs, p, r) ==
    LET msg == [playerId |-> p, mmr |-> r, ts |-> 0,
                js |-> [WellTyped EXCEPT !.ts = "undefined"]]
    IN  /\ r >= MinMmr /\ r <= MaxMmr
        /\ sent' = sent + 1
        /\ clock' = clock + 1
        /\ inbox' = [w \in Workers |->
                        IF w \in subs THEN Append(inbox[w], msg) ELSE inbox[w]]
        /\ answer' = Reply(200, "enqueued")
        /\ UNCHANGED <<store, appended, accepted, pc, payload, len, players,
                       parsedPlayers, match, idx, published, faults, outcome,
                       removed, returned, mmrIn, bucketOut, foreign, session,
                       before, storeFaults, down>>

\* lines 86-91: the message with its timestamp is published
GatewayEnqueue(subs, p, r) ==
    LET msg == [playerId |-> p, mmr |-> r, ts |-> clock, js |-> WellTyped]
    IN  /\ r >= MinMmr /\ r <= MaxMmr
        /\ sent' = sent + 1
        /\ clock' = clock + 1
        /\ inbox' = [w \in Workers |->
                        IF w \in subs THEN Append(inbox[w], msg) ELSE inbox[w]]
        /\ answer' = Reply(200, "enqueued")
        /\ UNCHANGED <<store, appended, accepted, pc, payload, len, players,
                       parsedPlayers, match, idx, published, faults, outcome,
                       removed, returned, mmrIn, bucketOut, foreign, session,
                       before, storeFaults, down>>

\* The caller is a player not seen before ...
EnqueueNew(subs, limit, r) ==
    /\ sent < limit
    /\ GatewayEnqueue(subs, PlayerId(sent - repeats + 1), r)
    /\ UNCHANGED <<repeats, request>>

\* ... or the player of the previous request once more.
EnqueueAgain(subs, limit, r) ==
    /\ sent < limit
    /\ sent > 0
    /\ repeats < MaxRepeats
    /\ GatewayEnqueue(subs, PlayerId(sent - repeats), r)
    /\ repeats' = repeats + 1
    /\ UNCHANGED request

\* Request bodies.  js holds what `typeof` answers for the two fields ("null"
\* for null), chars the characters of playerId as the UUID pattern sees them,
\* whole whether mmr is an integer.
Body(id, chars, mmr, tId, tMmr, whole) ==
    [playerId |-> id, chars |-> chars, mmr |-> mmr,
     js |-> [playerId |-> tId, mmr |-> tMmr], whole |-> whole]

\* the characters of PlayerId(n), a version 4 UUID
PlayerChars(n) == RandomUuid(n)

\* bodies of the n-th player: the rating given, omitted or null ...
GoodBodies(n) ==
    { Body(PlayerId(n), PlayerChars(n), r, "string", "number", TRUE) :
          r \in {MinMmr, 1500, MaxMmr} }
    \cup { Body(PlayerId(n), PlayerChars(n), 0, "string", "undefined", TRUE),
           Body(PlayerId(n), PlayerChars(n), 0, "string", "null", TRUE) }

\* ... and bodies the schema refuses
BadBodies(n) ==
    { Body(PlayerId(n), PlayerChars(n), r, "string", "number", TRUE) :
          r \in {-100, -1, MaxMmr + 1, 15000} }
    \cup { Body(PlayerId(n), PlayerChars(n), 1500, "string", "number", FALSE),
           Body(PlayerId(n), PlayerChars(n), 0, "string", "string", TRUE),
           Body("", <<>>, 1500, "undefined", "number", TRUE),
           Body("", <<>>, 1500, "number", "number", TRUE),
           Body("", << <<>> >>, 1500, "string", "number", TRUE),
           Body("not-a-uuid", << <<16, 16, 16>>, <<10>>, <<16, 16, 16, 13>> >>,
                1500, "string", "number", TRUE) }

\* line 83: req.body.mmr ?? 1000
MmrOrDefault(body) ==
    IF body.js.mmr \in {"undefined", "null"}
    THEN [body EXCEPT !.mmr = DefaultMmr, !.js.mmr = "number", !.whole = TRUE]
    ELSE body

\* z.string() without .uuid()
SchemaAcceptsAnyId(b) ==
    /\ b.js.playerId = "string"
    /\ b.js.mmr = "number"
    /\ b.whole
    /\ b.mmr >= MinMmr
    /\ b.mmr <= MaxMmr

\* MatchmakingEnqueueSchema.parse, lines 14-17
SchemaAccepts(b) ==
    /\ b.js.playerId = "string"
    /\ UuidShaped(b.chars)
    /\ b.js.mmr = "number"
    /\ b.whole
    /\ b.mmr >= MinMmr
    /\ b.mmr <= MaxMmr

\* lines 78-94: the body passes the schema
AcceptRequest(subs, body) ==
    LET p == MmrOrDefault(body)
    IN  /\ sent < MaxRequests
        /\ SchemaAccepts(p)
        /\ request' = body
        /\ GatewayEnqueue(subs, p.playerId, p.mmr)
        /\ UNCHANGED repeats

\* lines 78-84 and 95-101: the schema throws a ZodError
RejectRequest(body) ==
    /\ ~SchemaAccepts(MmrOrDefault(body))
    /\ request' = body
    /\ answer' = Reply(400, "validation_error")
    /\ UNCHANGED <<clock, sent, repeats, inbox, store, appended, accepted, pc,
                   payload, len, players, parsedPlayers, match, idx, published,
                   faults, outcome, removed, returned, mmrIn, bucketOut,
                   foreign, session, before, storeFaults, down>>

\* Messages on matchmaking.enqueue that do not come from the gateway: a text
\* that is no JSON, the text null, and objects that fail one test of
\* validateEnqueuePayload each.
Foreign(id, mmr, ts, js) == [playerId |-> id, mmr |-> mmr, ts |-> ts, js |-> js]

BadMessages ==
    { Foreign("", 0, 0, [self |-> "unparseable", playerId |-> "undefined",
                         mmr |-> "undefined", ts |-> "undefined"]),
      Foreign("", 0, 0, [self |-> "null", playerId |-> "undefined",
                         mmr |-> "undefined", ts |-> "undefined"]),
      Foreign("", DefaultMmr, 1, WellTyped),
      Foreign("", DefaultMmr, 1, [WellTyped EXCEPT !.playerId = "number"]),
      Foreign("x", -100, 1, WellTyped),
      Foreign("x", 15000, 1, WellTyped),
      Foreign("x", 0, 1, [WellTyped EXCEPT !.mmr = "string"]),
      Foreign("x", DefaultMmr, 0, [WellTyped EXCEPT !.ts = "undefined"]),
      Foreign("x", DefaultMmr, 0, WellTyped),
      Foreign("x", DefaultMmr, -1, WellTyped) }

\* some other client publishes m on matchmaking.enqueue
PublishForeign(subs, m) ==
    /\ foreign < MaxForeign
    /\ foreign' = foreign + 1
    /\ inbox' = [w \in Workers |->
                    IF w \in subs THEN Append(inbox[w], m) ELSE inbox[w]]
    /\ UNCHANGED <<clock, sent, repeats, store, appended, accepted, pc, payload,
                   len, players, parsedPlayers, match, idx, published, faults,
                   outcome, removed, returned, mmrIn, bucketOut, session,
                   request, answer, before, storeFaults, down>>

\* A rating of bucket 1000 that differs from message to message
RatingAt(n) == DefaultMmr + ((37 * n) % BUCKET)

(***************************************************************************)
(* matchmaking worker, lines 73-153                                        *)
(***************************************************************************)
Key(w) == BucketOf(payload[w].mmr)

\* lines 73-94: next message, parse, validate, LPUSH
Receive(w) ==
    /\ pc[w] = "idle"
    /\ inbox[w] # <<>>
    /\ LET p == Head(inbox[w])
           b == BucketOf(p.mmr)
       IN  /\ JsonParses(p)
           /\ validateEnqueuePayload(p)
           /\ inbox' = [inbox EXCEPT ![w] = Tail(@)]
           /\ payload' = [payload EXCEPT ![w] = p]
           /\ store' = [store EXCEPT ![b] = LPush(@, Stringify(p, appended + 1))]
           /\ appended' = appended + 1
           /\ accepted' = [accepted EXCEPT ![b] = @ (+) SetToBag({p})]
           /\ before' = [before EXCEPT ![w] =
                             [list |-> store[b], events |-> Len(published)]]
           /\ pc' = [pc EXCEPT ![w] = "llen"]
    /\ UNCHANGED <<clock, sent, repeats, len, players, parsedPlayers, match,
                   idx, published, faults, outcome, removed, returned, mmrIn,
                   bucketOut, foreign, session, request, answer, storeFaults,
                   down>>

\* lines 73-94 and 147-149: next message, parse, validate; the LPUSH throws
ReceiveFails(w) ==
    /\ pc[w] = "idle"
    /\ inbox[w] # <<>>
    /\ storeFaults < MaxStoreFaults
    /\ LET p == Head(inbox[w])
           b == BucketOf(p.mmr)
       IN  /\ JsonParses(p)
           /\ validateEnqueuePayload(p)
           /\ inbox' = [inbox EXCEPT ![w] = Tail(@)]
           /\ payload' = [payload EXCEPT ![w] = p]
           /\ before' = [before EXCEPT ![w] =
                             [list |-> store[b], events |-> Len(published)]]
    /\ storeFaults' = storeFaults + 1
    /\ outcome' = [outcome EXCEPT ![w] = "store_error"]
    /\ UNCHANGED <<clock, sent, repeats, store, appended, accepted, pc, len,
                   players, parsedPlayers, match, idx, published, faults,
                   removed, returned, mmrIn, bucketOut, foreign, session,
                   request, answer, down>>

\* lines 95-101 and 147-149: the LLEN, the LRANGE or the LTRIM throws
StoreFails(w) ==
    /\ pc[w] \in {"llen", "lrange", "ltrim"}
    /\ storeFaults < MaxStoreFaults
    /\ storeFaults' = storeFaults + 1
    /\ pc' = [pc EXCEPT ![w] = "idle"]
    /\ outcome' = [outcome EXCEPT ![w] = "store_error"]
    /\ UNCHANGED <<clock, sent, repeats, inbox, store, appended, accepted,
                   payload, len, players, parsedPlayers, match, idx, published,
                   faults, removed, returned, mmrIn, bucketOut, foreign,
                   session, request, answer, before, down>>

\* lines 73-88: next message; it does not parse or does not validate, and
\* the loop continues with the message after it
Drop(w) ==
    /\ pc[w] = "idle"
    /\ inbox[w] # <<>>
    /\ LET m == Head(inbox[w])
       IN  ~JsonParses(m) \/ ~validateEnqueuePayload(m)
    /\ inbox' = [inbox EXCEPT ![w] = Tail(@)]
    /\ outcome' = [outcome EXCEPT ![w] = "dropped"]
    /\ UNCHANGED <<clock, sent, repeats, store, appended, accepted, pc, payload,
                   len, players, parsedPlayers, match, idx, published, faults,
                   removed, returned, aside>>

\* the test written len > 8
QueryLenStrict(w) ==
    /\ pc[w] = "llen"
    /\ LET n == LLen(store[Key(w)])
       IN  /\ len' = [len EXCEPT ![w] = n]
           /\ IF n > GroupSize
              THEN /\ pc' = [pc EXCEPT ![w] = "lrange"]
                   /\ UNCHANGED outcome
              ELSE /\ pc' = [pc EXCEPT ![w] = "idle"]
                   /\ outcome' = [outcome EXCEPT ![w] = "queued"]
    /\ UNCHANGED <<clock, sent, repeats, inbox, store, appended, accepted,
                   payload, players, parsedPlayers, match, idx, published,
                   faults, removed, returned, aside>>

\* lines 95-99: LLEN and the test len >= 8
QueryLen(w) ==
    /\ pc[w] = "llen"
    /\ LET n == LLen(store[Key(w)])
       IN  /\ len' = [len EXCEPT ![w] = n]
           /\ IF n >= GroupSize
              THEN /\ pc' = [pc EXCEPT ![w] = "lrange"]
                   /\ UNCHANGED outcome
              ELSE /\ pc' = [pc EXCEPT ![w] = "idle"]
                   /\ outcome' = [outcome EXCEPT ![w] = "queued"]
    /\ UNCHANGED <<clock, sent, repeats, inbox, store, appended, accepted,
                   payload, players, parsedPlayers, match, idx, published,
                   faults, removed, returned, aside>>

\* LRANGE key 0 7: the newest 8 in place of the oldest 8
ReadGroupNewest(w) ==
    /\ pc[w] = "lrange"
    /\ players' = [players EXCEPT ![w] = LRange(store[Key(w)], 0, GroupSize - 1)]
    /\ pc' = [pc EXCEPT ![w] = "ltrim"]
    /\ UNCHANGED <<clock, sent, repeats, inbox, store, appended, accepted,
                   payload, len, parsedPlayers, match, idx, published, faults,
                   outcome, removed, returned, aside>>

\* line 100: LRANGE key -8 -1
ReadGroup(w) ==
    /\ pc[w] = "lrange"
    /\ players' = [players EXCEPT ![w] = LRange(store[Key(w)], -GroupSize, -1)]
    /\ pc' = [pc EXCEPT ![w] = "ltrim"]
    /\ UNCHANGED <<clock, sent, repeats, inbox, store, appended, accepted,
                   payload, len, parsedPlayers, match, idx, published, faults,
                   outcome, removed, returned, aside>>

\* lines 106-115: the players of the response that parse and validate
ParsePlayers(reply) == SelectSeq(Map(reply, Parse), validateEnqueuePayload)

\* teamA from slice(4, 8) and teamB from slice(0, 4)
BuildMatchSwapped(pp, now) ==
    [mode |-> "CONTROL", region |-> "auto",
     teamA |-> Map(SubSeq(pp, TeamSize + 1, GroupSize), LAMBDA p : p.playerId),
     teamB |-> Map(SubSeq(pp, 1, TeamSize), LAMBDA p : p.playerId),
     createdAt |-> now, js |-> MatchTyped]

\* slice(0, 3) and slice(3, 8): teams of 3 and 5
BuildMatchUneven(pp, now) ==
    [mode |-> "CONTROL", region |-> "auto",
     teamA |-> Map(SubSeq(pp, 1, TeamSize - 1), LAMBDA p : p.playerId),
     teamB |-> Map(SubSeq(pp, TeamSize, GroupSize), LAMBDA p : p.playerId),
     createdAt |-> now, js |-> MatchTyped]

\* lines 118-126
BuildMatch(pp, now) ==
    [mode |-> "CONTROL", region |-> "auto",
     teamA |-> Map(SubSeq(pp, 1, TeamSize), LAMBDA p : p.playerId),
     teamB |-> Map(SubSeq(pp, TeamSize + 1, GroupSize), LAMBDA p : p.playerId),
     createdAt |-> now, js |-> MatchTyped]

\* lines 101-126 and 143-145: LTRIM key 0 -9, then parse and build the match
TrimGroup(w) ==
    /\ pc[w] = "ltrim"
    /\ store' = [store EXCEPT ![Key(w)] = LTrim(@, 0, -(GroupSize + 1))]
    /\ removed' = [removed EXCEPT ![w] =
                      SubSeq(store[Key(w)], Len(store'[Key(w)]) + 1,
                             Len(store[Key(w)]))]
    /\ LET pp == ParsePlayers(players[w])
       IN  /\ parsedPlayers' = [parsedPlayers EXCEPT ![w] = pp]
           /\ IF Len(pp) >= GroupSize
              THEN /\ match' = [match EXCEPT ![w] = BuildMatch(pp, clock)]
                   /\ clock' = clock + 1
                   /\ pc' = [pc EXCEPT ![w] = "publish"]
                   /\ UNCHANGED <<outcome, returned>>
              ELSE /\ pc' = [pc EXCEPT ![w] = "idle"]
                   /\ outcome' = [outcome EXCEPT ![w] = "short"]
                   /\ returned' = [returned EXCEPT ![Key(w)] = NoReturn]
                   /\ UNCHANGED <<match, clock>>
    /\ UNCHANGED <<sent, repeats, inbox, appended, accepted, payload, len,
                   players, idx, published, faults, aside>>

\* lines 128-130: the publish succeeds
PublishMatch(w) ==
    /\ pc[w] = "publish"
    /\ published' = Append(published,
                           [match |-> match[w], bucket |-> Key(w),
                            group |-> players[w], removed |-> removed[w],
                            retry |-> returned[Key(w)], by |-> w])
    /\ pc' = [pc EXCEPT ![w] = "idle"]
    /\ outcome' = [outcome EXCEPT ![w] = "formed"]
    /\ returned' = [returned EXCEPT ![Key(w)] = NoReturn]
    /\ UNCHANGED <<clock, sent, repeats, inbox, store, appended, accepted,
                   payload, len, players, parsedPlayers, match, idx, faults,
                   removed, aside>>

\* the re-add loop entered past its first player
PublishFailsSkipsFirst(w) ==
    /\ pc[w] = "publish"
    /\ faults < MaxPublishFaults
    /\ faults' = faults + 1
    /\ idx' = [idx EXCEPT ![w] = 2]
    /\ pc' = [pc EXCEPT ![w] = "readd"]
    /\ UNCHANGED <<clock, sent, repeats, inbox, store, appended, accepted,
                   payload, len, players, parsedPlayers, match, published,
                   outcome, removed, returned, aside>>

\* lines 131-132: the publish throws
PublishFails(w) ==
    /\ pc[w] = "publish"
    /\ faults < MaxPublishFaults
    /\ faults' = faults + 1
    /\ idx' = [idx EXCEPT ![w] = 1]
    /\ pc' = [pc EXCEPT ![w] = "readd"]
    /\ UNCHANGED <<clock, sent, repeats, inbox, store, appended, accepted,
                   payload, len, players, parsedPlayers, match, published,
                   outcome, removed, returned, aside>>

\* lines 135-141: one LPUSH of the re-add loop
ReAdd(w) ==
    /\ pc[w] = "readd"
    /\ store' = [store EXCEPT ![Key(w)] =
                    LPush(@, Stringify(parsedPlayers[w][idx[w]], appended + 1))]
    /\ appended' = appended + 1
    /\ IF idx[w] < Len(parsedPlayers[w])
       THEN /\ idx' = [idx EXCEPT ![w] = @ + 1]
            /\ UNCHANGED <<pc, outcome, returned>>
       ELSE /\ idx' = [idx EXCEPT ![w] = 0]
            /\ pc' = [pc EXCEPT ![w] = "idle"]
            /\ outcome' = [outcome EXCEPT ![w] = "aborted"]
            /\ returned' = [returned EXCEPT ![Key(w)] =
                   [group |-> parsedPlayers[w],
                    waiting |-> Len(store'[Key(w)]) - Len(parsedPlayers[w]),
                    n |-> faults]]
    /\ UNCHANGED <<clock, sent, repeats, inbox, accepted, payload, len,
                   players, parsedPlayers, match, published, faults, removed,
                   aside>>

\* lines 58-62 and 70-71: SIGTERM or SIGINT arrives; the handler closes the
\* subscription and waits for nats.close()
Shutdown(w) ==
    /\ down[w] = "up"
    /\ down' = [down EXCEPT ![w] = "closing"]
    /\ UNCHANGED <<clock, sent, repeats, inbox, store, appended, accepted, pc,
                   payload, len, players, parsedPlayers, match, idx, published,
                   faults, outcome, removed, returned, mmrIn, bucketOut,
                   foreign, session, request, answer, before, storeFaults>>

\* lines 62-67: nats.close() has returned; redis.disconnect() and
\* process.exit(0), wherever the for await loop is suspended
Exit(w) ==
    /\ down[w] = "closing"
    /\ down' = [down EXCEPT ![w] = "exited"]
    /\ UNCHANGED <<clock, sent, repeats, inbox, store, appended, accepted, pc,
                   payload, len, players, parsedPlayers, match, idx, published,
                   faults, outcome, removed, returned, mmrIn, bucketOut,
                   foreign, session, request, answer, before, storeFaults>>

(***************************************************************************)
(* Specifications                                                          *)
(***************************************************************************)
\* Two workers on the same store, the bus and the store without faults
Next ==
    \/ EnqueueNew(Workers, MaxMsgs, RatingAt(sent + 1))
    \/ \E w \in Workers : Receive(w)
    \/ \E w \in Workers : QueryLen(w)
    \/ \E w \in Workers : ReadGroup(w)
    \/ \E w \in Workers : TrimGroup(w)
    \/ \E w \in Workers : PublishMatch(w)

Spec == Init /\ [][Next]_vars

\* One worker, no faults; a player may enqueue twice
NextSingle ==
    \/ EnqueueNew(OneWorker, MaxMsgsSingle, RatingAt(sent + 1))
    \/ EnqueueAgain(OneWorker, MaxMsgsSingle, RatingAt(sent + 1))
    \/ \E w \in OneWorker : Receive(w)
    \/ \E w \in OneWorker : QueryLen(w)
    \/ \E w \in OneWorker : ReadGroup(w)
    \/ \E w \in OneWorker : TrimGroup(w)
    \/ \E w \in OneWorker : PublishMatch(w)

SpecSingle == Init /\ [][NextSingle]_vars

\* One worker whose publish may fail
WorkerStep(w) ==
    \/ Receive(w)
    \/ QueryLen(w)
    \/ ReadGroup(w)
    \/ TrimGroup(w)
    \/ PublishMatch(w)
    \/ PublishFails(w)
    \/ ReAdd(w)

NextFaulty ==
    \/ EnqueueNew(OneWorker, MaxMsgsSingle, RatingAt(sent + 1))
    \/ \E w \in OneWorker : WorkerStep(w)

SpecFaulty == Init /\ [][NextFaulty]_vars

\* One worker whose publish may fail, and that never stops between awaits
SpecFaultyFair ==
    /\ Init
    /\ [][NextFaulty]_vars
    /\ \A w \in OneWorker : WF_vars(WorkerStep(w))

\* One worker; next to the gateway another client publishes on the subject
NextDrop ==
    \/ EnqueueNew(OneWorker, MaxMsgsDrop, RatingAt(sent + 1))
    \/ \E m \in BadMessages : PublishForeign(OneWorker, m)
    \/ \E w \in OneWorker : Receive(w)
    \/ \E w \in OneWorker : Drop(w)
    \/ \E w \in OneWorker : QueryLen(w)
    \/ \E w \in OneWorker : ReadGroup(w)
    \/ \E w \in OneWorker : TrimGroup(w)
    \/ \E w \in OneWorker : PublishMatch(w)

SpecDrop == Init /\ [][NextDrop]_vars

\* One worker whose Redis calls may fail
NextStoreFaulty ==
    \/ EnqueueNew(OneWorker, MaxMsgsStore, RatingAt(sent + 1))
    \/ \E w \in OneWorker : Receive(w)
    \/ \E w \in OneWorker : ReceiveFails(w)
    \/ \E w \in OneWorker : QueryLen(w)
    \/ \E w \in OneWorker : ReadGroup(w)
    \/ \E w \in OneWorker : TrimGroup(w)
    \/ \E w \in OneWorker : PublishMatch(w)
    \/ \E w \in OneWorker : StoreFails(w)

SpecStoreFaulty == Init /\ [][NextStoreFaulty]_vars

\* One worker that is told to stop.  Once the subscription is closed the loop
\* takes no further message; the calls of the message in hand go on until the
\* process exits, and a publish on the closing connection succeeds or throws.
\* pc = "publish" is also where the loop stands when Redis has executed the
\* LTRIM and the reply is not yet handled.
Running(w) == down[w] # "exited"

NextShutdown ==
    \/ EnqueueNew(OneWorker, MaxMsgsShutdown, RatingAt(sent + 1))
    \/ \E w \in OneWorker : down[w] = "up" /\ Receive(w)
    \/ \E w \in OneWorker : Running(w) /\ QueryLen(w)
    \/ \E w \in OneWorker : Running(w) /\ ReadGroup(w)
    \/ \E w \in OneWorker : Running(w) /\ TrimGroup(w)
    \/ \E w \in OneWorker : Running(w) /\ PublishMatch(w)
    \/ \E w \in OneWorker : down[w] = "closing" /\ PublishFails(w)
    \/ \E w \in OneWorker : Running(w) /\ ReAdd(w)
    \/ \E w \in OneWorker : Shutdown(w)
    \/ \E w \in OneWorker : Exit(w)

SpecShutdown == Init /\ [][NextShutdown]_vars

\* The enqueue endpoint and its callers, one subscribed worker
NextGateway ==
    \/ \E b \in GoodBodies(sent + 1) \cup BadBodies(sent + 1) :
          AcceptRequest(OneWorker, b)
    \/ \E b \in GoodBodies(sent + 1) \cup BadBodies(sent + 1) :
          RejectRequest(b)

SpecGateway == Init /\ [][NextGateway]_vars

\* line 90 on its own, for every rating validateEnqueuePayload lets through
ComputeBucket ==
    /\ bucketOut = <<>>
    /\ bucketOut' = <<BucketOf(mmrIn)>>
    /\ UNCHANGED <<clock, sent, repeats, inbox, store, appended, accepted, pc,
                   payload, len, players, parsedPlayers, match, idx, published,
                   faults, outcome, removed, returned, mmrIn, foreign,
                   session, request, answer, before, storeFaults, down>>

InitBucket ==
    /\ InitPipeline
    /\ mmrIn \in MinMmr..MaxMmr
    /\ bucketOut = <<>>

SpecBucket == InitBucket /\ [][ComputeBucket]_vars

(***************************************************************************)
(* Events on matchmaking.match_found as the session service meets them     *)
(***************************************************************************)
\* the k-th 4v4 match, as lines 118-126 of the worker build it
MatchEvent(k, now) ==
    BuildMatch([i \in 1..GroupSize |->
                   [playerId |-> PlayerId(GroupSize * (k - 1) + i),
                    mmr |-> DefaultMmr, ts |-> 1, js |-> WellTyped]], now)

\* events that differ from it in one respect
BadMatchEvents(k, now) ==
    LET m == MatchEvent(k, now)
    IN  { [m EXCEPT !.js.self = "unparseable"],
          [m EXCEPT !.teamA = <<>>],
          [m EXCEPT !.teamB = SubSeq(m.teamB, 1, TeamSize - 1)],
          [m EXCEPT !.teamA = SubSeq(m.teamA, 1, 2),
                    !.teamB = SubSeq(m.teamB, 1, 2)],
          [m EXCEPT !.mode = ""],
          [m EXCEPT !.region = ""],
          [m EXCEPT !.js.createdAt = "undefined"] }

\* m is published on matchmaking.match_found
AnnounceMatch(m) ==
    /\ Len(published) < MaxEvents
    /\ published' = Append(published,
                           [match |-> m, bucket |-> 0, group |-> <<>>,
                            removed |-> <<>>, retry |-> NoReturn, by |-> 0])
    /\ UNCHANGED <<clock, worker, session>>

\* time passes in steps of half the time to live
TickSteps == {(SessionTtl * 1000) \div 2}

Tick(d) ==
    /\ ticks < MaxTicks
    /\ ticks' = ticks + 1
    /\ clock' = clock + d
    /\ UNCHANGED <<published, worker, cursor, spc, smatch, sid, uuids,
                   sessions, made, created, soutcome, sfaults, response>>

(***************************************************************************)
(* session service, part_007                                               *)
(***************************************************************************)
\* validateMatchData, lines 24-35
validateMatchData(data) ==
    /\ data.js.self = "object"
    /\ data.js.mode = "string"
    /\ data.js.region = "string"
    /\ data.js.teamA = "array"
    /\ data.js.teamB = "array"
    /\ Len(data.teamA) = TeamSize
    /\ Len(data.teamB) = TeamSize
    /\ data.js.createdAt = "number"

\* the two teams exchanged
BuildSessionSwapped(id, m) ==
    [id |-> id, region |-> m.region, mode |-> m.mode, teamA |-> m.teamB,
     teamB |-> m.teamA, createdAt |-> m.createdAt]

\* lines 76-83
BuildSession(id, m) ==
    [id |-> id, region |-> m.region, mode |-> m.mode, teamA |-> m.teamA,
     teamB |-> m.teamB, createdAt |-> m.createdAt]

\* JSON.stringify(session) and JSON.parse(sessionData)
StringifySession(x) == [json |-> x]
ParseSession(text) == text.json

\* lines 58-83: next event, it parses and validates; a session id is drawn
AcceptEvent(s) ==
    /\ spc[s] = "idle"
    /\ cursor[s] < Len(published)
    /\ LET m == published[cursor[s] + 1].match
       IN  /\ JsonParses(m)
           /\ validateMatchData(m)
           /\ smatch' = [smatch EXCEPT ![s] = m]
    /\ cursor' = [cursor EXCEPT ![s] = @ + 1]
    /\ uuids' = uuids + 1
    /\ sid' = [sid EXCEPT ![s] = RandomUuid(uuids + 1)]
    /\ spc' = [spc EXCEPT ![s] = "setex"]
    /\ UNCHANGED <<clock, published, worker, sessions, made, created,
                   soutcome, sfaults, response, ticks>>

\* lines 58-73: next event; it does not parse or does not validate
DropEvent(s) ==
    /\ spc[s] = "idle"
    /\ cursor[s] < Len(published)
    /\ LET m == published[cursor[s] + 1].match
       IN  ~JsonParses(m) \/ ~validateMatchData(m)
    /\ cursor' = [cursor EXCEPT ![s] = @ + 1]
    /\ soutcome' = [soutcome EXCEPT ![s] = "dropped"]
    /\ UNCHANGED <<clock, published, worker, spc, smatch, sid, uuids,
                   sessions, made, created, sfaults, response, ticks>>

\* lines 86-89: SETEX session:<id> succeeds
StoreSession(s) ==
    /\ spc[s] = "setex"
    /\ LET text == StringifySession(BuildSession(sid[s], smatch[s]))
       IN  /\ sessions' = SetEx(sessions, SessionKey(sid[s]), SessionTtl,
                                text, clock)
           /\ made' = Append(made, [id |-> sid[s], value |-> text, at |-> clock,
                                    event |-> cursor[s], by |-> s])
    /\ spc' = [spc EXCEPT ![s] = "publish"]
    /\ UNCHANGED <<clock, published, worker, cursor, smatch, sid, uuids,
                   created, soutcome, sfaults, response, ticks>>

\* the error swallowed and the event published all the same
StoreSessionFailsPublishes(s) ==
    /\ spc[s] = "setex"
    /\ sfaults < MaxSessionFaults
    /\ sfaults' = sfaults + 1
    /\ spc' = [spc EXCEPT ![s] = "publish"]
    /\ UNCHANGED <<clock, published, worker, cursor, smatch, sid, uuids,
                   sessions, made, created, soutcome, response, ticks>>

\* lines 88 and 92-94: SETEX throws
StoreSessionFails(s) ==
    /\ spc[s] = "setex"
    /\ sfaults < MaxSessionFaults
    /\ sfaults' = sfaults + 1
    /\ spc' = [spc EXCEPT ![s] = "idle"]
    /\ soutcome' = [soutcome EXCEPT ![s] = "store_failed"]
    /\ UNCHANGED <<clock, published, worker, cursor, smatch, sid, uuids,
                   sessions, made, created, response, ticks>>

\* line 91: the session.created event is published
PublishCreated(s) ==
    /\ spc[s] = "publish"
    /\ created' = Append(created, [id |-> sid[s], match |-> smatch[s],
                                   event |-> cursor[s], by |-> s])
    /\ spc' = [spc EXCEPT ![s] = "idle"]
    /\ soutcome' = [soutcome EXCEPT ![s] = "created"]
    /\ UNCHANGED <<clock, published, worker, cursor, smatch, sid, uuids,
                   sessions, made, sfaults, response, ticks>>

\* lines 91 and 92-94: the publish throws
PublishCreatedFails(s) ==
    /\ spc[s] = "publish"
    /\ sfaults < MaxSessionFaults
    /\ sfaults' = sfaults + 1
    /\ spc' = [spc EXCEPT ![s] = "idle"]
    /\ soutcome' = [soutcome EXCEPT ![s] = "publish_failed"]
    /\ UNCHANGED <<clock, published, worker, cursor, smatch, sid, uuids,
                   sessions, made, created, response, ticks>>

\* Ids a client asks for: ids the service has drawn, the UUID of the format
\* test, UUID-shaped ids of version 0 and 7 and of variant c, an id one
\* character short, and 'not-a-uuid'
TestUuid ==
    << <<1, 2, 3, 14, 4, 5, 6, 7>>, <<14, 8, 9, 11>>, <<1, 2, 13, 3>>,
       <<10, 4, 5, 6>>, <<4, 2, 6, 6, 1, 4, 1, 7, 4, 0, 0, 0>> >>

ProbeIds ==
    { TestUuid,
      << Zeros(8), Zeros(4), Zeros(4), Zeros(4), Zeros(12) >>,
      << Zeros(8), Zeros(4), <<4>> \o Zeros(3), <<8>> \o Zeros(3), Zeros(11) >>,
      << Zeros(8), Zeros(4), <<7>> \o Zeros(3), <<8>> \o Zeros(3), Zeros(12) >>,
      << Zeros(8), Zeros(4), <<4>> \o Zeros(3), <<12>> \o Zeros(3), Zeros(12) >>,
      << <<16, 16, 16>>, <<10>>, <<16, 16, 16, 13>> >> }

LookupIds == {RandomUuid(n) : n \in 1..MaxEvents} \cup ProbeIds

Respond(id, status, error, body, consulted) ==
    [id |-> id, status |-> status, error |-> error, body |-> body,
     consulted |-> consulted, at |-> clock]

\* the id test left out
LookupUnchecked(id) ==
    /\ LET found == Get(sessions, SessionKey(id), clock)
       IN  IF found = {}
           THEN response' = Respond(id, 404, "session_not_found", NoSession, TRUE)
           ELSE response' = Respond(id, 200, "",
                                 ParseSession(CHOOSE v \in found : TRUE), TRUE)
    /\ UNCHANGED <<clock, published, worker, cursor, spc, smatch, sid, uuids,
                   sessions, made, created, soutcome, sfaults, ticks>>

\* GET /v1/sessions/:id, lines 111-133
Lookup(id) ==
    /\ IF ~UuidRoute(id)
       THEN response' = Respond(id, 400, "invalid_session_id_format", NoSession,
                             FALSE)
       ELSE LET found == Get(sessions, SessionKey(id), clock)
            IN  IF found = {}
                THEN response' = Respond(id, 404, "session_not_found", NoSession,
                                      TRUE)
                ELSE response' = Respond(id, 200, "",
                                      ParseSession(CHOOSE v \in found : TRUE),
                                      TRUE)
    /\ UNCHANGED <<clock, published, worker, cursor, spc, smatch, sid, uuids,
                   sessions, made, created, soutcome, sfaults, ticks>>

\* One session service and events of every kind
NextSession ==
    \/ AnnounceMatch(MatchEvent(Len(published) + 1, clock))
    \/ \E m \in BadMatchEvents(Len(published) + 1, clock) : AnnounceMatch(m)
    \/ \E s \in OneService : AcceptEvent(s)
    \/ \E s \in OneService : DropEvent(s)
    \/ \E s \in OneService : StoreSession(s)
    \/ \E s \in OneService : PublishCreated(s)

SpecSession == Init /\ [][NextSession]_vars

\* One session service, valid events, clients that look sessions up, and time
NextLookup ==
    \/ AnnounceMatch(MatchEvent(Len(published) + 1, clock))
    \/ \E d \in TickSteps : Tick(d)
    \/ \E s \in OneService : AcceptEvent(s)
    \/ \E s \in OneService : StoreSession(s)
    \/ \E s \in OneService : PublishCreated(s)
    \/ \E id \in LookupIds : Lookup(id)

SpecLookup == Init /\ [][NextLookup]_vars

\* Two session services subscribed to the subject, valid events only
NextFanout ==
    \/ AnnounceMatch(MatchEvent(Len(published) + 1, clock))
    \/ \E s \in Services : AcceptEvent(s)
    \/ \E s \in Services : StoreSession(s)
    \/ \E s \in Services : PublishCreated(s)

SpecFanout == Init /\ [][NextFanout]_vars

\* One session service whose SETEX and publish may fail
NextSessionFaulty ==
    \/ AnnounceMatch(MatchEvent(Len(published) + 1, clock))
    \/ \E s \in OneService : AcceptEvent(s)
    \/ \E s \in OneService : StoreSession(s)
    \/ \E s \in OneService : StoreSessionFails(s)
    \/ \E s \in OneService : PublishCreated(s)
    \/ \E s \in OneService : PublishCreatedFails(s)
    \/ \E id \in LookupIds : Lookup(id)

SpecSessionFaulty == Init /\ [][NextSessionFaulty]_vars

(***************************************************************************)
(* The pipeline from the enqueue message to the stored session             *)
(***************************************************************************)
\* the steps of a worker whose calls all succeed
FaultlessStep(w) ==
    \/ Receive(w)
    \/ QueryLen(w)
    \/ ReadGroup(w)
    \/ TrimGroup(w)
    \/ PublishMatch(w)

\* the steps of a session service whose calls all succeed
ServiceStep(s) ==
    \/ AcceptEvent(s)
    \/ StoreSession(s)
    \/ PublishCreated(s)

\* One worker and one session service
NextPipeline ==
    \/ EnqueueNew(OneWorker, MaxMsgsPipeline, RatingAt(sent + 1))
    \/ \E w \in OneWorker : FaultlessStep(w)
    \/ \E s \in OneService : ServiceStep(s)

\* Neither process stops between two awaits
SpecPipelineFair ==
    /\ Init
    /\ [][NextPipeline]_vars
    /\ \A w \in OneWorker : WF_vars(FaultlessStep(w))
    /\ \A s \in OneService : WF_vars(ServiceStep(s))

\* Two workers subscribed to the subject and one session service, in the
\* schedules where worker 2 is the slower one: the callers send the next
\* request once worker 1 has caught up, and worker 2 takes a message while
\* worker 1 is between its LLEN and its LTRIM or has nothing left to do.
CaughtUp(w) == pc[w] = "idle" /\ inbox[w] = <<>>
InClaim(w) == pc[w] \in {"lrange", "ltrim"}

SendWhenCaughtUp ==
    /\ CaughtUp(1)
    /\ EnqueueNew(Workers, MaxMsgsRace, RatingAt(sent + 1))

SlowStep(w) ==
    \/ (InClaim(1) \/ (CaughtUp(1) /\ sent = MaxMsgsRace)) /\ Receive(w)
    \/ QueryLen(w)
    \/ ReadGroup(w)
    \/ TrimGroup(w)
    \/ PublishMatch(w)

NextPipelineShared ==
    \/ SendWhenCaughtUp
    \/ FaultlessStep(1)
    \/ SlowStep(2)
    \/ \E s \in OneService : ServiceStep(s)

\* All the requests are sent and no process stops between two awaits
SpecPipelineSharedFair ==
    /\ Init
    /\ [][NextPipelineShared]_vars
    /\ WF_vars(SendWhenCaughtUp)
    /\ WF_vars(FaultlessStep(1))
    /\ WF_vars(SlowStep(2))
    /\ \A s \in OneService : WF_vars(ServiceStep(s))

\* One worker, no faults, callers whose ratings fall into two buckets
NextBuckets ==
    \/ \E r \in BorderRatings : EnqueueNew(OneWorker, MaxMsgsBuckets, r)
    \/ \E w \in OneWorker : FaultlessStep(w)

SpecBuckets == Init /\ [][NextBuckets]_vars

(***************************************************************************)
(* Vocabulary of the properties                                            *)
(***************************************************************************)
Seqs(nodes) == {nodes[i].seq : i \in DOMAIN nodes}
Ids(pp) == Map(pp, LAMBDA p : p.playerId)
NoRepeat(s) == \A i, j \in DOMAIN s : i # j => s[i] # s[j]

\* w has read a group and has neither published it nor given it up
Claiming(w) == pc[w] \in {"ltrim", "publish", "readd"}
\* w has taken a group out of the list and not yet published or returned it
InFlight(w) == pc[w] \in {"publish", "readd"}

\* the payloads w holds out of the list
HeldBy(w) ==
    IF pc[w] = "publish" THEN parsedPlayers[w]
    ELSE IF pc[w] = "readd"
         THEN SubSeq(parsedPlayers[w], idx[w], Len(parsedPlayers[w]))
         ELSE <<>>

RECURSIVE HeldBag(_)
HeldBag(ws) ==
    IF ws = {} THEN EmptyBag
    ELSE LET w == CHOOSE x \in ws : TRUE
         IN  SeqToBag(HeldBy(w)) (+) HeldBag(ws \ {w})

RECURSIVE GroupsBag(_)
GroupsBag(is) ==
    IF is = {} THEN EmptyBag
    ELSE LET i == CHOOSE x \in is : TRUE
         IN  SeqToBag(Map(published[i].group, Parse)) (+) GroupsBag(is \ {i})

QueuedBag(b) == SeqToBag(Map(store[b], Parse))
InFlightBag(b) == HeldBag({w \in Workers : Key(w) = b})
PublishedBag(b) == GroupsBag({i \in DOMAIN published : published[i].bucket = b})
PublishedFor(b) == {i \in DOMAIN published : published[i].bucket = b}

(***************************************************************************)
(* C1  Two workers never read the same list node into their groups: the    *)
(* groups of any two claims (in progress or published) are disjoint.       *)
(***************************************************************************)
C1_ClaimsDisjoint ==
    /\ \A w1, w2 \in Workers :
          (w1 # w2 /\ Claiming(w1) /\ Claiming(w2))
              => Seqs(players[w1]) \cap Seqs(players[w2]) = {}
    /\ \A i, j \in DOMAIN published :
          i # j => Seqs(published[i].group) \cap Seqs(published[j].group) = {}
    /\ \A i \in DOMAIN published : \A w \in Workers :
          Claiming(w) => Seqs(published[i].group) \cap Seqs(players[w]) = {}

(***************************************************************************)
(* C2  Conservation: for every bucket, the tickets in the list, those held *)
(* by a worker out of the list and those of published groups are together  *)
(* exactly the tickets accepted for the bucket.                            *)
(***************************************************************************)
C2_Conservation ==
    \A b \in BucketKeys :
        QueuedBag(b) (+) InFlightBag(b) (+) PublishedBag(b) = accepted[b]

(***************************************************************************)
(* C3  All-or-nothing: a claim that read fewer than 8 tickets deleted no   *)
(* list node and published nothing.                                        *)
(***************************************************************************)
C3_AllOrNothing ==
    \A w \in Workers :
        (pc[w] = "idle" /\ outcome[w] = "short") => removed[w] = <<>>

RECURSIVE HeldIds(_)
HeldIds(ws) ==
    IF ws = {} THEN <<>>
    ELSE LET w == CHOOSE x \in ws : TRUE
         IN  Ids(HeldBy(w)) \o HeldIds(ws \ {w})

C5_NoDoubleBooking == NoRepeat(HeldIds(Workers))

(***************************************************************************)
(* C6  Every published match has two teams of 4 that share no participant  *)
(* and that together are the participants of the tickets its LTRIM         *)
(* deleted.                                                                *)
(***************************************************************************)
C6_MatchIsBipartition ==
    \A i \in DOMAIN published :
        LET m == published[i].match
        IN  /\ Len(m.teamA) = TeamSize
            /\ Len(m.teamB) = TeamSize
            /\ Range(m.teamA) \cap Range(m.teamB) = {}
            /\ Range(m.teamA) \cup Range(m.teamB)
                   = Range(Ids(Map(published[i].removed, Parse)))
            /\ Len(published[i].removed) = GroupSize

(***************************************************************************)
(* C7  One worker, no faults: between two messages, a bucket for which k   *)
(* messages were processed has k \div 8 published matches and k % 8        *)
(* queued tickets.                                                         *)
(***************************************************************************)
Processed(b) == BagCardinality(accepted[b])

C7_FloorAndRemainder ==
    \A w \in OneWorker : \A b \in BucketKeys :
        pc[w] = "idle" =>
            /\ Cardinality(PublishedFor(b)) = Processed(b) \div GroupSize
            /\ Len(store[b]) = Processed(b) % GroupSize

C7_Witness ==
    /\ \A w \in OneWorker : pc[w] = "idle"
    /\ Processed(BucketOf(DefaultMmr)) = 2 * GroupSize
    /\ Len(published) = 2
    /\ store[BucketOf(DefaultMmr)] = <<>>

(***************************************************************************)
(* C8  Oldest first: while a worker holds a group it took out of a list,   *)
(* every node still in that list was pushed after every node the worker    *)
(* read into the group and after every node its LTRIM deleted.             *)
(***************************************************************************)
C8_OldestFirst ==
    \A w \in Workers :
        InFlight(w) =>
            /\ Len(players[w]) = GroupSize
            /\ \A g \in Range(players[w]) \cup Range(removed[w]) :
                   \A q \in Range(store[Key(w)]) : g.seq < q.seq

C8_Witness ==
    \E w \in Workers : pc[w] = "publish" /\ store[Key(w)] # <<>>

(***************************************************************************)
(* C9  Once the n-th failed publish has put a group back, either a later   *)
(* publish fails too or a match of exactly that group is eventually        *)
(* published.                                                              *)
(***************************************************************************)
MatchOfReturn(n) ==
    \E i \in DOMAIN published :
        /\ published[i].retry.n = n
        /\ SeqToBag(published[i].match.teamA \o published[i].match.teamB)
               = SeqToBag(Ids(published[i].retry.group))

C9_ReturnedEventuallyMatched ==
    \A w \in OneWorker : \A n \in 1..MaxPublishFaults :
        (pc[w] = "idle" /\ outcome[w] = "aborted" /\ faults = n)
            ~> (MatchOfReturn(n) \/ faults > n)

(***************************************************************************)
(* C10  The bucket of a rating r in [0, 10000] is a multiple of 100 with   *)
(* bucket <= r < bucket + 100; 1000, 1050, 1150, 999 give 1000, 1000,      *)
(* 1100, 900.                                                              *)
(***************************************************************************)
C10_BucketKey ==
    bucketOut # <<>> =>
        LET key == bucketOut[1]
        IN  /\ key % BUCKET = 0
            /\ key <= mmrIn
            /\ mmrIn < key + BUCKET
            /\ (mmrIn = 1000 => key = 1000)
            /\ (mmrIn = 1050 => key = 1000)
            /\ (mmrIn = 1150 => key = 1100)
            /\ (mmrIn = 999 => key = 900)

C10_Witness == mmrIn = 999 /\ bucketOut = <<900>>

(***************************************************************************)
(* C11  A message that is no JSON, or whose playerId is empty or no string, *)
(* whose rating is outside [0, 10000], or whose timestamp is missing or not *)
(* positive, is consumed without any change to a bucket list and without a *)
(* published match, and the worker is ready for the next message.          *)
(***************************************************************************)
C11_Invalid(m) ==
    \/ m.js.self = "unparseable"
    \/ m.js.playerId # "string"
    \/ m.playerId = ""
    \/ (m.js.mmr = "number" /\ (m.mmr < 0 \/ m.mmr > 10000))
    \/ m.js.ts = "undefined"
    \/ m.ts <= 0

C11_InvalidIsDropped ==
    [][\A w \in OneWorker :
          (/\ pc[w] = "idle"
           /\ inbox[w] # <<>>
           /\ C11_Invalid(Head(inbox[w]))
           /\ inbox'[w] = Tail(inbox[w]))
              => (/\ store' = store
                  /\ accepted' = accepted
                  /\ published' = published
                  /\ pc'[w] = "idle")]_vars

\* the eighth message of the bucket was an invalid one, and nothing happened
C11_Witness ==
    \E w \in OneWorker :
        /\ pc[w] = "idle"
        /\ outcome[w] = "dropped"
        /\ inbox[w] = <<>>
        /\ Len(store[BucketOf(DefaultMmr)]) = GroupSize - 1
        /\ published = <<>>

(***************************************************************************)
(* C12  Each match yields exactly one session: of the SETEXes executed so   *)
(* far at most one stores a session of any one match_found event, and      *)
(* exactly one once every subscribed service has finished with the event.  *)
(***************************************************************************)
SessionsOf(i) == {k \in DOMAIN made : made[k].event = i}

C12_OneSessionPerMatch ==
    \A i \in DOMAIN published :
        /\ Cardinality(SessionsOf(i)) <= 1
        /\ (\A s \in Services : cursor[s] >= i /\ spc[s] = "idle")
               => Cardinality(SessionsOf(i)) = 1

(***************************************************************************)
(* C13  One service, no faults: every valid match_found event the service  *)
(* has finished with has exactly one stored session and exactly one        *)
(* session.created event, the ids of these events are all different, and a *)
(* lookup of such an id, made after the event and before the record's time *)
(* to live has run out, answers 200 with the mode, region, teamA and teamB *)
(* of the match.                                                           *)
(***************************************************************************)
CreatedOf(i) == {k \in DOMAIN created : created[k].event = i}
Expiry(id) == {made[k].at + SessionTtl * 1000 : k \in {j \in DOMAIN made : made[j].id = id}}

C13_OnePerEvent ==
    /\ \A s \in OneService : \A i \in 1..cursor[s] :
          (i < cursor[s] \/ spc[s] = "idle")
              => /\ Cardinality(SessionsOf(i)) = 1
                 /\ Cardinality(CreatedOf(i)) = 1
                 /\ \A k \in SessionsOf(i) : \A j \in CreatedOf(i) :
                        made[k].id = created[j].id
    /\ \A j, k \in DOMAIN created : j # k => created[j].id # created[k].id
    /\ Len(made) <= uuids

C13_LookupAnswers ==
    \A k \in DOMAIN created :
        (/\ response' # response
         /\ response'.id = created[k].id
         /\ \A t \in Expiry(created[k].id) : clock < t)
            => /\ response'.status = 200
               /\ response'.body.id = created[k].id
               /\ response'.body.mode = created[k].match.mode
               /\ response'.body.region = created[k].match.region
               /\ response'.body.teamA = created[k].match.teamA
               /\ response'.body.teamB = created[k].match.teamB

C13_SessionPerEvent == [][C13_OnePerEvent' /\ C13_LookupAnswers]_vars

C13_Witness ==
    /\ Len(created) = 2
    /\ response.status = 200
    /\ response.id = created[2].id
    /\ response.body.teamA = published[2].match.teamA

(***************************************************************************)
(* C14  No session is stored and no session.created event is published for *)
(* a match_found event that has an empty side, sides of unequal size, or an *)
(* empty mode or region.                                                   *)
(***************************************************************************)
C14_Rejected(m) ==
    \/ m.teamA = <<>>
    \/ m.teamB = <<>>
    \/ Len(m.teamA) # Len(m.teamB)
    \/ m.mode = ""
    \/ m.region = ""

C14_InvalidMatchDropped ==
    /\ \A k \in DOMAIN made : ~C14_Rejected(published[made[k].event].match)
    /\ \A k \in DOMAIN created : ~C14_Rejected(published[created[k].event].match)

(***************************************************************************)
(* C15  A lookup answers 400, without a read of the store, for every id    *)
(* that is not UUID-shaped; 404 for every UUID-shaped id that has no       *)
(* record or an expired one; and 200 with the stored session otherwise.    *)
(***************************************************************************)
Live(id) == Get(sessions, SessionKey(id), clock)

C16_Valid(b) ==
    /\ b.js.playerId = "string"
    /\ UuidShaped(b.chars)
    /\ \/ b.js.mmr \in {"undefined", "null"}
       \/ (b.js.mmr = "number" /\ b.whole /\ b.mmr >= 0 /\ b.mmr <= 10000)

C16_Rating(b) == IF b.js.mmr = "number" THEN b.mmr ELSE 1000

C17_Formed(w) ==
    /\ outcome[w] = "formed"
    /\ \E i \in DOMAIN published :
          published[i].by = w /\ published[i].removed = removed[w]

C17_Aborted(w) ==
    /\ outcome[w] = "aborted"
    /\ returned[Key(w)].group = parsedPlayers[w]
    /\ \A i \in DOMAIN published :
          ~(published[i].by = w /\ published[i].removed = removed[w])

C17_FormedOrAborted ==
    \A w \in Workers :
        (/\ pc[w] = "idle"
         /\ outcome[w] \in {"short", "formed", "aborted"}
         /\ removed[w] # <<>>)
            => (C17_Formed(w) \/ C17_Aborted(w))

(***************************************************************************)
(* C18  When a Redis call fails while a message is processed, nothing of   *)
(* the message is left behind: the bucket list is as it was when the       *)
(* message was taken, and no match_found event was published since.        *)
(***************************************************************************)
C18_NoPartialState ==
    \A w \in OneWorker :
        (pc[w] = "idle" /\ outcome[w] = "store_error") =>
            /\ store[Key(w)] = before[w].list
            /\ Len(published) = before[w].events

(***************************************************************************)
(* C19  When the SETEX of a session fails, no session.created event is     *)
(* published for that match, then or later; the event is not taken again;  *)
(* no bucket list and no enqueue message changes; and the service is ready *)
(* for the next event.                                                     *)
(***************************************************************************)
C19_FailedStoreIsFinal ==
    [][\A s \in OneService :
          /\ (spc[s] = "setex" /\ spc'[s] = "idle") =>
                /\ cursor' = cursor
                /\ sessions' = sessions
                /\ created' = created
                /\ store' = store
                /\ inbox' = inbox
          /\ \A i \in 1..cursor'[s] :
                SessionsOf(i)' = {} => CreatedOf(i)' = {}
          /\ \A i \in 1..cursor[s] :
                (i < cursor[s] \/ spc[s] = "idle")
                    => (SessionsOf(i)' = SessionsOf(i)
                        /\ CreatedOf(i)' = CreatedOf(i))]_vars

\* the SETEX for the first event failed, the second event has its session
C19_Witness ==
    /\ sfaults >= 1
    /\ SessionsOf(1) = {}
    /\ CreatedOf(1) = {}
    /\ SessionsOf(2) # {}
    /\ CreatedOf(2) # {}

(***************************************************************************)
(* C20  Every stored session record has createdAt equal to the time at     *)
(* which the service stored it, it expires at createdAt plus 24 hours, and *)
(* a lookup of its id answers 404 exactly when that time has been reached. *)
(***************************************************************************)
C20_Stamped ==
    /\ \A k \in DOMAIN made :
          ParseSession(made[k].value).createdAt = made[k].at
    /\ \A e \in sessions :
          e.expires = ParseSession(e.value).createdAt + SessionTtl * 1000

C20_NotFoundFromExpiry ==
    \A k \in DOMAIN made :
        (response' # response /\ response'.id = made[k].id) =>
            (response'.status = 404
                <=> clock >= ParseSession(made[k].value).createdAt
                                 + SessionTtl * 1000)

C20_CreatedAtAndExpiry == [][C20_Stamped' /\ C20_NotFoundFromExpiry]_vars

(***************************************************************************)
(* C21  No faults, every process keeps taking steps: whenever a bucket     *)
(* list holds 8 or more tickets after an append, a match_found event for   *)
(* that bucket is published afterwards, and a session built from that      *)
(* event becomes retrievable by its id.                                    *)
(***************************************************************************)
\* w has appended its ticket and the list of b now holds 8 or more
PostAppend(w, b) ==
    pc[w] = "llen" /\ Key(w) = b /\ Len(store[b]) >= GroupSize

\* a lookup would answer 200 with a session of the teams of event i
Retrievable(i) ==
    \E k \in SessionsOf(i) :
        /\ UuidRoute(made[k].id)
        /\ \E v \in Live(made[k].id) :
               /\ ParseSession(v).teamA = published[i].match.teamA
               /\ ParseSession(v).teamB = published[i].match.teamB

MaxMatches == (2 * MaxMsgsRace) \div GroupSize

C21_MatchAndSessionFollow ==
    \A w \in Workers : \A b \in BucketKeys : \A n \in 0..MaxMatches :
        (PostAppend(w, b) /\ Len(published) = n)
            ~> (\E i \in DOMAIN published :
                   i > n /\ published[i].bucket = b /\ Retrievable(i))

(***************************************************************************)
(* C22  With two or more workers subscribed to matchmaking.enqueue, every  *)
(* enqueue message is appended to its bucket list exactly once: never more *)
(* than once, and once when every worker has finished with it.             *)
(***************************************************************************)
Tickets(p) == CopiesIn(p, accepted[BucketOf(p.mmr)])

RECURSIVE AcceptedIn(_)
AcceptedIn(bs) ==
    IF bs = {} THEN EmptyBag
    ELSE LET b == CHOOSE x \in bs : TRUE
         IN  accepted[b] (+) AcceptedIn(bs \ {b})

C22_OneTicketPerMessage ==
    /\ \A b \in BucketKeys : \A p \in BagToSet(accepted[b]) : Tickets(p) = 1
    /\ (\A w \in Workers : pc[w] = "idle" /\ inbox[w] = <<>>)
           => BagCardinality(AcceptedIn(BucketKeys)) = sent

(***************************************************************************)
(* C23  When the worker has exited after SIGTERM or SIGINT, every ticket   *)
(* its last LTRIM took out of a bucket list is in a published match_found  *)
(* event or back in its bucket list.                                       *)
(***************************************************************************)
InEvent(g) ==
    \E i \in DOMAIN published : g \in Range(published[i].removed)

InBucket(g) ==
    \E q \in Range(store[BucketOf(Parse(g).mmr)]) : Parse(q) = Parse(g)

C23_NoTicketLostAtExit ==
    \A w \in OneWorker :
        down[w] = "exited" =>
            \A g \in Range(removed[w]) : InEvent(g) \/ InBucket(g)

(***************************************************************************)
(* C24  A session.created event is published only after the session with  *)
(* that id has been stored: at the moment the event is published, a lookup *)
(* of its id finds the session of that match.                              *)
(***************************************************************************)
C24_StoredBeforeAnnounced ==
    [][created' # created =>
          LET e == created'[Len(created')]
          IN  /\ \E k \in DOMAIN made :
                     made[k].id = e.id /\ made[k].event = e.event
              /\ UuidRoute(e.id)
              /\ \E v \in Get(sessions', SessionKey(e.id), clock') :
                     /\ ParseSession(v).id = e.id
                     /\ ParseSession(v).teamA = e.match.teamA
                     /\ ParseSession(v).teamB = e.match.teamB]_vars

\* an event announces a stored session after an earlier SETEX has failed
C24_Witness ==
    /\ sfaults >= 1
    /\ created # <<>>
    /\ \E s \in OneService : soutcome[s] = "created"
    /\ Live(created[Len(created)].id) # {}

(***************************************************************************)
(* C25  Every enqueue message the gateway publishes parses and passes the  *)
(* worker's validateEnqueuePayload: the worker drops no acknowledged       *)
(* request as invalid.                                                     *)
(***************************************************************************)
C25_GatewayPayloadValid ==
    \A w \in OneWorker : \A i \in DOMAIN inbox[w] :
        /\ JsonParses(inbox[w][i])
        /\ validateEnqueuePayload(inbox[w][i])

\* requests with the lowest and with the highest rating were acknowledged
C25_Witness ==
    /\ answer = Reply(200, "enqueued")
    /\ \A w \in OneWorker :
          /\ Len(inbox[w]) = MaxRequests
          /\ inbox[w][1].mmr = MinMmr
          /\ inbox[w][MaxRequests].mmr = MaxMmr

(***************************************************************************)
(* C26  Every match_found event the worker publishes parses and passes the *)
(* session service's validateMatchData, and the session service drops no   *)
(* event of the worker: each event it has taken got a session id.          *)
(***************************************************************************)
C26_WorkerMatchValid ==
    /\ \A i \in DOMAIN published :
          published[i].by \in Workers =>
              /\ JsonParses(published[i].match)
              /\ validateMatchData(published[i].match)
    /\ \A s \in OneService :
          /\ soutcome[s] # "dropped"
          /\ cursor[s] <= uuids

\* the session service has stored a session for a match of worker 1
C26_Witness ==
    \E k \in DOMAIN made :
        /\ published[made[k].event].by = 1
        /\ ParseSession(made[k].value).teamA = published[made[k].event].match.teamA
        /\ Len(ParseSession(made[k].value).teamB) = TeamSize

(***************************************************************************)
(* C27  The 8 participants of a published match are the players of 8       *)
(* tickets of one bucket: their ratings r all have the same                *)
(* floor(r / 100) * 100.                                                   *)
(***************************************************************************)
C27_SingleBucketMatch ==
    \A i \in DOMAIN published :
        LET g == Map(published[i].group, Parse)
        IN  /\ Len(g) = 8
            /\ published[i].match.teamA \o published[i].match.teamB = Ids(g)
            /\ \A j, k \in DOMAIN g :
                   (g[j].mmr \div 100) * 100 = (g[k].mmr \div 100) * 100

\* a match of players rated 1000 and 1099 while a player rated 1100 waits
C27_Witness ==
    /\ published # <<>>
    /\ {Parse(published[1].group[j]).mmr : j \in DOMAIN published[1].group}
           = {1000, 1099}
    /\ store[1100] # <<>>

(***************************************************************************)
(* C28  One worker, no publish or store failure: when a message has been   *)
(* processed to its end, every bucket list holds at most 7 tickets, and    *)
(* the processing of one message has published at most one match.          *)
(***************************************************************************)
C28_AtMostSevenWaiting ==
    \A w \in OneWorker :
        /\ pc[w] = "idle" => \A b \in BucketKeys : Len(store[b]) <= 7
        /\ outcome[w] # "none" => Len(published) - before[w].events <= 1

\* the eighth ticket of a bucket has just been matched while another bucket
\* keeps its ticket
C28_Witness ==
    \E w \in OneWorker :
        /\ pc[w] = "idle"
        /\ outcome[w] = "formed"
        /\ Len(published) - before[w].events = 1
        /\ store[1000] = <<>>
        /\ Len(store[1100]) = 1

(***************************************************************************)
(* C29  In every published match teamA are the players of the 4 tickets of *)
(* the group that were appended last and teamB those of the 4 appended     *)
(* first, each team listed from the later to the earlier append; the order *)
(* of the appends is that of the enqueue requests.                         *)
(***************************************************************************)
\* the nodes of group g in the order of their LPUSH, latest first
RECURSIVE LatestFirst(_)
LatestFirst(g) ==
    IF g = {} THEN <<>>
    ELSE LET top == CHOOSE x \in g : \A y \in g : y.seq <= x.seq
         IN  <<top>> \o LatestFirst(g \ {top})

C29_TeamsByAppendOrder ==
    \A i \in DOMAIN published :
        LET order == LatestFirst(Range(published[i].group))
        IN  /\ Len(order) = 8
            /\ published[i].match.teamA
                   = [j \in 1..4 |-> Parse(order[j]).playerId]
            /\ published[i].match.teamB
                   = [j \in 1..4 |-> Parse(order[j + 4]).playerId]
            /\ \A j \in 1..7 : Parse(order[j]).ts > Parse(order[j + 1]).ts

\* the second match: players 16 to 13 against players 12 to 9
C29_Witness ==
    /\ Len(published) = 2
    /\ published[2].match.teamA
           = <<PlayerId(16), PlayerId(15), PlayerId(14), PlayerId(13)>>
    /\ published[2].match.teamB
           = <<PlayerId(12), PlayerId(11), PlayerId(10), PlayerId(9)>>

(***************************************************************************)
(* C30  After a failed publish the 8 tickets of the group are at the       *)
(* newest end of the bucket list in reversed order, so that the next claim *)
(* takes every ticket that was waiting then and, of the returned tickets,  *)
(* those returned first; the returned ticket that is claimed last is the   *)
(* one that was enqueued first.                                            *)
(***************************************************************************)
\* the re-add loop has just ended: the group, reversed, heads the list
C30_ReversedAtHead ==
    \A w \in OneWorker :
        (pc[w] = "idle" /\ outcome[w] = "aborted") =>
            LET list == store[Key(w)]
                back == parsedPlayers[w]
            IN  /\ Len(back) = 8
                /\ Len(list) >= 8
                /\ \A j \in 1..8 : Parse(list[j]) = back[9 - j]
                /\ \A j \in 1..8 : \A k \in 9..Len(list) :
                       list[j].seq > list[k].seq

\* the first match after a return: the tickets that waited when the group
\* was returned are all in it, next to the tickets returned first
C30_WaitingClaimedFirst ==
    \A i \in DOMAIN published :
        published[i].retry.n >= 1 =>
            LET got == Map(published[i].group, Parse)
                back == published[i].retry.group
                k == Max(0, 8 - published[i].retry.waiting)
            IN  /\ \A j \in 1..k : got[j] = back[k + 1 - j]
                /\ \A j \in (k + 1)..8 : got[j] \notin Range(back)

\* a returned ticket left out of that match was enqueued before every
\* returned ticket that is in it
C30_FirstEnqueuedClaimedLast ==
    \A i \in DOMAIN published :
        published[i].retry.n >= 1 =>
            LET got == Range(Map(published[i].group, Parse))
                back == Range(published[i].retry.group)
            IN  \A late \in back \ got : \A early \in back \cap got :
                    late.ts < early.ts

C30_LastReadClaimedLast ==
    \A i \in DOMAIN published :
        published[i].retry.n >= 1 =>
            LET got == Range(Map(published[i].group, Parse))
                back == published[i].retry.group
            IN  \A j \in 1..8 : \A k \in 1..8 :
                    (back[j] \in got /\ back[k] \notin got) => j < k

====
